---- MODULE Spec2Model ----
(***************************************************************************)
(* Model of cbdc::sentinel_2pc::controller                                 *)
(* (src/src/uhs/twophase/sentinel_2pc/controller.cpp).                     *)
(*                                                                         *)
(* The controller is configured, init() validates the configuration and    *)
(* connects, and then every transaction handed to execute_transaction      *)
(* runs its own chain of continuations: static validation, compact         *)
(* transaction and self attestation, attestation gathering from peer       *)
(* sentinels, submission to the coordinator, result translation.           *)
(*                                                                         *)
(* Indices of m_sentinel_clients are 0-based as in the source; the         *)
(* sequence that models the vector is 1-based, so index i is element i+1.  *)
(* The blocking loops of the source (coordinator connect, peer draw,       *)
(* coordinator submit) are modelled one iteration per step.                *)
(***************************************************************************)
EXTENDS Integers, Sequences, FiniteSets, TLC

(* ---------------------------- bounds ----------------------------------- *)
MaxEndpoints == 3      \* longest m_sentinel_endpoints list
MaxThreshold == 3      \* largest m_attestation_threshold
MaxRetry     == 3      \* most rejected coordinator submit calls per transaction
NumReasons   == 2      \* distinct violation kinds check_tx can report

\* The transactions in flight.  Two are what an interleaving needs; the
\* transactions share no variable but the read-only configuration and m_dist.
Txs       == {1, 2}
NoErr     == 0
TxErrors  == 0..NumReasons          \* result of check_tx: NoErr or a reason
NoIndex   == -1                      \* sentinel_id before the first draw

VARIABLES
    \* configuration (m_opts, m_sentinel_id)
    m_sentinel_endpoints,    \* sequence of endpoints
    m_sentinel_id,           \* this sentinel's identity
    has_privkey,             \* m_sentinel_private_keys has an entry for m_sentinel_id
    m_attestation_threshold,
    \* init()
    init_pc,                 \* "start", "connect", "peers", "running", "failed"
    retry_delay,             \* local of init (seconds)
    retry_threshold,         \* local of init
    m_sentinel_clients,      \* sequence: the endpoint each peer client talks to
    m_dist,                  \* [lo, hi] of the uniform distribution
    crashed,                 \* the process died on an out-of-range vector access
    \* per transaction
    pc,                      \* "new", "gather", "wait", "send", "coord", "done";
                             \* "validated" after validate_transaction
    tx_err,                  \* check_tx(tx) of the transaction passed in
    m_attestations,          \* ctx.m_attestations
    requested,               \* the requested set of the live continuation
    sentinel_id,             \* local of gather_attestations / captured by the callback
    attempted,               \* peer indices whose validate_transaction was called
    queried,                 \* peer indices whose validate_transaction accepted, in order
    last_v_res,              \* "none", "attested", "invalid": last peer response
    submits,                 \* coordinator execute_transaction calls made
    sleeps,                  \* retry delays slept in send_compact_tx
    coord_rx,                \* compact transactions the coordinator accepted
    coord_res,               \* "pending", "true", "false", "none"
    response,                \* sequence of values given to result_callback
    v_response               \* values given to validate_transaction's callback

cfgvars  == <<m_sentinel_endpoints, m_sentinel_id, has_privkey,
              m_attestation_threshold>>
initvars == <<init_pc, retry_delay, retry_threshold, m_sentinel_clients, m_dist>>
txvars   == <<pc, tx_err, m_attestations, requested, sentinel_id, attempted,
              queried, last_v_res, submits, sleeps, coord_rx, coord_res,
              response, v_response>>
vars     == <<cfgvars, initvars, crashed, txvars>>

(* ------------------------- values -------------------------------------- *)
\* std::optional<execute_response>: nullopt, or a status with an optional error
NoResponse == [has_value |-> FALSE, m_tx_status |-> "none", m_tx_error |-> NoErr]

ExecuteResponse(status, err) ==
    [has_value |-> TRUE, m_tx_status |-> status, m_tx_error |-> err]

\* the endpoint (hence the signing party) of this sentinel
SelfParty == m_sentinel_endpoints[m_sentinel_id + 1]

\* compact_tx::sign: the attestation is the signer's public key and a
\* signature over the transaction identity
sign(tx_id, party) == [pubkey |-> party, sig |-> <<party, tx_id>>]

\* transaction::compact_tx(tx): identity of the transaction, no attestations
compact_tx(t) == [m_id |-> t, m_attestations |-> {}]


(* ------------------------- initial state ------------------------------- *)
\* The endpoints of a configuration are pairwise different: endpoint i of the
\* list is the sentinel whose identity is i-1.
EndpointLists == { [i \in 1..n |-> i] : n \in 0..MaxEndpoints }

Init ==
    /\ m_sentinel_endpoints \in EndpointLists
    /\ m_sentinel_id \in 0..MaxEndpoints
    /\ has_privkey \in BOOLEAN
    /\ m_attestation_threshold \in 0..MaxThreshold
    /\ init_pc = "start"
    /\ retry_delay = 0
    /\ retry_threshold = 0
    /\ m_sentinel_clients = << >>
    /\ m_dist = [lo |-> 0, hi |-> 0]
    /\ crashed = FALSE
    /\ pc = [t \in Txs |-> "new"]
    /\ tx_err = [t \in Txs |-> NoErr]
    /\ m_attestations = [t \in Txs |-> {}]
    /\ requested = [t \in Txs |-> {}]
    /\ sentinel_id = [t \in Txs |-> NoIndex]
    /\ attempted = [t \in Txs |-> {}]
    /\ queried = [t \in Txs |-> << >>]
    /\ last_v_res = [t \in Txs |-> "none"]
    /\ submits = [t \in Txs |-> 0]
    /\ sleeps = [t \in Txs |-> 0]
    /\ coord_rx = [t \in Txs |-> << >>]
    /\ coord_res = [t \in Txs |-> "pending"]
    /\ response = [t \in Txs |-> << >>]
    /\ v_response = [t \in Txs |-> << >>]

(* ------------------------------ init() --------------------------------- *)
\* a variant that asks for a signing key whatever the threshold is
ConfigRejected_KeyRequired ==
    \/ Len(m_sentinel_endpoints) = 0
    \/ m_sentinel_id >= Len(m_sentinel_endpoints)
    \/ ~has_privkey

\* lines 44-66: the three fatal configuration errors
ConfigRejected ==
    \/ Len(m_sentinel_endpoints) = 0
    \/ m_sentinel_id >= Len(m_sentinel_endpoints)
    \/ (~has_privkey /\ m_attestation_threshold > 0)

\* line 68: auto retry_delay = std::chrono::seconds(1)
InitialRetryDelay == 1

\* line 69: auto retry_threshold = 4
InitialRetryThreshold == 4

InitValidate ==
    /\ init_pc = "start"
    /\ IF ConfigRejected
          THEN /\ init_pc' = "failed"
               /\ UNCHANGED <<retry_delay, retry_threshold>>
          ELSE /\ init_pc' = "connect"
               /\ retry_delay' = InitialRetryDelay
               /\ retry_threshold' = InitialRetryThreshold
    /\ UNCHANGED <<cfgvars, m_sentinel_clients, m_dist, crashed, txvars>>

\* a variant of the loop condition that allows one more retry
RetryAllowed_OneMore(threshold) == threshold >= 0

\* line 70: retry_threshold-- > 0, on the value before the decrement
RetryAllowed(threshold) == threshold > 0

\* lines 74-77: the delay after the sleep; threshold is the decremented value
NextRetryDelay(delay, threshold) == IF threshold > 0 THEN delay * 2 ELSE delay

\* lines 70-78: one evaluation of the loop condition, and the body when it holds;
\* client_ok is what m_coordinator_client.init() returned.  A step that stays
\* in the loop has slept for retry_delay (line 73).
InitCoordinator(client_ok) ==
    /\ init_pc = "connect"
    /\ IF client_ok
          THEN \* !init() is false: retry_threshold-- is not evaluated
               /\ init_pc' = "peers"
               /\ UNCHANGED <<retry_delay, retry_threshold>>
          ELSE /\ retry_threshold' = retry_threshold - 1
               /\ IF RetryAllowed(retry_threshold)
                     THEN /\ init_pc' = "connect"
                          /\ retry_delay' = NextRetryDelay(retry_delay,
                                                           retry_threshold - 1)
                     ELSE /\ init_pc' = "peers"
                          /\ UNCHANGED retry_delay
    /\ UNCHANGED <<cfgvars, m_sentinel_clients, m_dist, crashed, txvars>>

\* lines 80-91: one client per endpoint other than this sentinel's own
PeerEndpoints ==
    SelectSeq(m_sentinel_endpoints,
              LAMBDA ep : ep # m_sentinel_endpoints[m_sentinel_id + 1])

\* lines 93-96
DistUpperBound(clients) == IF Len(clients) = 0 THEN 0 ELSE Len(clients) - 1

\* lines 80-112; server_ok is what rpc_server->init() returned.  The locals of
\* init go out of scope.
InitPeers(server_ok) ==
    /\ init_pc = "peers"
    /\ m_sentinel_clients' = PeerEndpoints
    /\ m_dist' = [lo |-> 0, hi |-> DistUpperBound(PeerEndpoints)]
    /\ init_pc' = IF server_ok THEN "running" ELSE "failed"
    /\ retry_delay' = 0
    /\ retry_threshold' = 0
    /\ UNCHANGED <<cfgvars, crashed, txvars>>


(* ------------------------ execute_transaction -------------------------- *)
Running == init_pc = "running" /\ ~crashed

\* a variant that drops the violation reason from the response
StaticInvalidResponse_NoReason(err) == ExecuteResponse("static_invalid", NoErr)

\* lines 125-127: the response given to the caller for a violation
StaticInvalidResponse(err) == ExecuteResponse("static_invalid", err)

\* a variant that signs whatever the threshold is
SelfAttest_Always(ctx) ==
    [ctx EXCEPT !.m_attestations = @ \cup {sign(ctx.m_id, SelfParty)}]

\* lines 133-136: the self attestation, only when attestations are required
SelfAttest(ctx) ==
    IF m_attestation_threshold > 0
       THEN [ctx EXCEPT !.m_attestations = @ \cup {sign(ctx.m_id, SelfParty)}]
       ELSE ctx

\* variants of the gathering condition: one attestation short, one too many
NeedsAttestation_Short(atts) == Cardinality(atts) + 1 < m_attestation_threshold

NeedsAttestation_Inclusive(atts) == Cardinality(atts) <= m_attestation_threshold

\* line 197: the gathering condition
NeedsAttestation(atts) == Cardinality(atts) < m_attestation_threshold

\* lines 197-222 on entry: where gather_attestations goes with this set
GatherEntry(atts) == IF NeedsAttestation(atts) THEN "gather" ELSE "send"

\* lines 114-141; err is check_tx(tx)
ExecuteTransaction(t, err) ==
    /\ Running
    /\ UNCHANGED v_response
    /\ pc[t] = "new"
    /\ tx_err' = [tx_err EXCEPT ![t] = err]
    /\ IF err # NoErr
          THEN /\ response' = [response EXCEPT
                                 ![t] = Append(@, StaticInvalidResponse(err))]
               /\ pc' = [pc EXCEPT ![t] = "done"]
               /\ UNCHANGED m_attestations
          ELSE LET ctx == SelfAttest(compact_tx(t))
               IN /\ m_attestations' = [m_attestations EXCEPT
                                          ![t] = ctx.m_attestations]
                  /\ pc' = [pc EXCEPT ![t] = GatherEntry(ctx.m_attestations)]
                  /\ UNCHANGED response
    /\ UNCHANGED <<cfgvars, initvars, crashed, requested, sentinel_id,
                   attempted, queried, last_v_res, submits, sleeps, coord_rx,
                   coord_res>>

(* ------------------------ validate_transaction ------------------------- *)
\* m_privkey: set at line 62 when a key is configured, else left as constructed
PrivKeyParty == IF has_privkey THEN SelfParty ELSE 0

\* a variant that signs without looking at the validation result
ValidateAnswer_NoCheck(t, err) == [has_value |-> TRUE] @@ sign(t, PrivKeyParty)

\* lines 162-169: what the callback is given; err is check_tx(tx)
ValidateAnswer(t, err) ==
    IF err # NoErr
       THEN [has_value |-> FALSE, pubkey |-> 0, sig |-> << >>]
       ELSE [has_value |-> TRUE] @@ sign(t, PrivKeyParty)

\* lines 159-171: a validation-only request, served in slot t
ValidateTransaction(t, err) ==
    /\ Running
    /\ pc[t] = "new"
    /\ tx_err' = [tx_err EXCEPT ![t] = err]
    /\ v_response' = [v_response EXCEPT ![t] = Append(@, ValidateAnswer(t, err))]
    /\ pc' = [pc EXCEPT ![t] = "validated"]
    /\ UNCHANGED <<cfgvars, initvars, crashed, m_attestations, requested,
                   sentinel_id, attempted, queried, last_v_res, submits, sleeps,
                   coord_rx, coord_res, response>>

(* ------------------------ gather_attestations -------------------------- *)
\* a variant that never skips a drawn index
AlreadyRequested_Never(req, idx) == FALSE

\* line 201: the drawn index was already requested for this transaction
AlreadyRequested(req, idx) == idx \in req

\* a variant in which an accepted dispatch does not end the loop
AfterDispatch_KeepDrawing(accepted) == "gather"

\* lines 198-199, 204: the loop runs until a dispatch is accepted (success);
\* then the step returns and the transaction waits for the peer's callback
AfterDispatch(accepted) == IF accepted THEN "wait" ELSE "gather"

\* lines 199-216: one iteration of the draw loop.  idx is m_dist(m_rand),
\* accepted is what the peer client's validate_transaction returned.
\* An index outside m_sentinel_clients is an out-of-range access to the vector:
\* the process dies.
GatherDraw(t, idx, accepted) ==
    /\ Running
    /\ UNCHANGED v_response
    /\ pc[t] = "gather"
    /\ idx \in m_dist.lo .. m_dist.hi
    /\ sentinel_id' = [sentinel_id EXCEPT ![t] = idx]
    /\ IF AlreadyRequested(requested[t], idx)
          THEN UNCHANGED <<crashed, attempted, queried, pc>>
          ELSE IF idx >= Len(m_sentinel_clients)
                  THEN /\ crashed' = TRUE
                       /\ UNCHANGED <<attempted, queried, pc>>
                  ELSE /\ attempted' = [attempted EXCEPT ![t] = @ \cup {idx}]
                       /\ queried' = IF accepted
                                        THEN [queried EXCEPT ![t] = Append(@, idx)]
                                        ELSE queried
                       /\ pc' = [pc EXCEPT ![t] = AfterDispatch(accepted)]
                       /\ UNCHANGED crashed
    /\ UNCHANGED <<cfgvars, initvars, tx_err, m_attestations, requested,
                   last_v_res, submits, sleeps, coord_rx, coord_res, response>>

(* ---------------- the callback of a peer's validate request ------------ *)
\* a variant that forgets to record the queried index
NextRequested_Forget(req, idx) == req

\* lines 208-209: r = requested with the queried index added
NextRequested(req, idx) == req \cup {idx}

\* a variant that keeps one requested set for all transactions
CarryRequested_Shared(all, t, r) == [u \in Txs |-> r]

\* the requested set the continuation of transaction t carries from now on
CarryRequested(all, t, r) == [all EXCEPT ![t] = r]

\* the values a peer can answer with: nullopt, or its attestation
NoAttestation == [has_value |-> FALSE, pubkey |-> 0, sig |-> << >>]

\* attests: the peer found the transaction valid and signed it with its own key
PeerAnswer(t, idx, attests) ==
    IF attests
       THEN [has_value |-> TRUE] @@ sign(t, m_sentinel_clients[idx + 1])
       ELSE NoAttestation

\* line 185: ctx.m_attestations.insert(v_res.value())
InsertAttestation(atts, v_res) ==
    atts \cup { [pubkey |-> v_res.pubkey, sig |-> v_res.sig] }

\* a variant without the return of line 183
AfterRemoteInvalid_FallThrough(atts) == GatherEntry(atts)

\* lines 182-183: after result_callback(std::nullopt) the handler returns
AfterRemoteInvalid(atts) == "done"

\* lines 207-215 and 173-190
PeerResponse(t, attests) ==
    /\ Running
    /\ UNCHANGED v_response
    /\ pc[t] = "wait"
    /\ LET r == NextRequested(requested[t], sentinel_id[t])
           v_res == PeerAnswer(t, sentinel_id[t], attests)
       IN IF ~v_res.has_value
             THEN /\ response' = [response EXCEPT ![t] = Append(@, NoResponse)]
                  /\ pc' = [pc EXCEPT ![t] = AfterRemoteInvalid(m_attestations[t])]
                  /\ last_v_res' = [last_v_res EXCEPT ![t] = "invalid"]
                  /\ UNCHANGED <<m_attestations, requested>>
             ELSE LET atts == InsertAttestation(m_attestations[t], v_res)
                  IN /\ m_attestations' = [m_attestations EXCEPT ![t] = atts]
                     /\ requested' = CarryRequested(requested, t, r)
                     /\ pc' = [pc EXCEPT ![t] = GatherEntry(atts)]
                     /\ last_v_res' = [last_v_res EXCEPT ![t] = "attested"]
                     /\ UNCHANGED response
    /\ UNCHANGED <<cfgvars, initvars, crashed, tx_err, sentinel_id, attempted,
                   queried, submits, sleeps, coord_rx, coord_res>>

(* --------------------------- send_compact_tx --------------------------- *)
\* variants of the loop condition: never leaving, and the negation dropped
SendLoopExit_Never(accepted) == FALSE

SendLoopExit_Inverted(accepted) == ~accepted

\* line 235: the loop ends when the coordinator client accepted the call
SendLoopExit(accepted) == accepted

\* lines 235-242: one call of m_coordinator_client.execute_transaction and,
\* when it is rejected, the retry delay
SendCompactTx(t, accepted) ==
    /\ Running
    /\ UNCHANGED v_response
    /\ pc[t] = "send"
    /\ accepted \/ sleeps[t] < MaxRetry
    /\ submits[t] <= MaxRetry
    /\ submits' = [submits EXCEPT ![t] = @ + 1]
    /\ coord_rx' = IF accepted
                      THEN [coord_rx EXCEPT
                              ![t] = Append(@, [m_id |-> t,
                                                m_attestations |-> m_attestations[t]])]
                      ELSE coord_rx
    /\ IF SendLoopExit(accepted)
          THEN /\ pc' = [pc EXCEPT ![t] = "coord"]
               /\ UNCHANGED sleeps
          ELSE /\ sleeps' = [sleeps EXCEPT ![t] = @ + 1]
               /\ UNCHANGED pc
    /\ UNCHANGED <<cfgvars, initvars, crashed, tx_err, m_attestations,
                   requested, sentinel_id, attempted, queried, last_v_res,
                   coord_res, response>>

(* ---------------------------- result_handler --------------------------- *)
\* a variant that reports a missing outcome as a rejection
result_handler_NoneInvalid(res) ==
    IF res = "true"
       THEN ExecuteResponse("confirmed", NoErr)
       ELSE ExecuteResponse("state_invalid", NoErr)

\* lines 146-156; res is "true", "false" or "none" (std::optional<bool>)
result_handler(res) ==
    IF res # "none"
       THEN IF res = "false"
               THEN ExecuteResponse("state_invalid", NoErr)
               ELSE ExecuteResponse("confirmed", NoErr)
       ELSE NoResponse

\* lines 228-231: the coordinator's completion callback
CoordinatorResult(t, res) ==
    /\ Running
    /\ UNCHANGED v_response
    /\ pc[t] = "coord"
    /\ Len(coord_rx[t]) > 0
    /\ coord_res' = [coord_res EXCEPT ![t] = res]
    /\ response' = [response EXCEPT ![t] = Append(@, result_handler(res))]
    /\ pc' = [pc EXCEPT ![t] = "done"]
    /\ UNCHANGED <<cfgvars, initvars, crashed, tx_err, m_attestations,
                   requested, sentinel_id, attempted, queried, last_v_res,
                   submits, sleeps, coord_rx>>

(* ------------------------------ specification -------------------------- *)
Next ==
    \/ InitValidate
    \/ \E ok \in BOOLEAN : InitCoordinator(ok)
    \/ \E ok \in BOOLEAN : InitPeers(ok)
    \/ \E t \in Txs, err \in TxErrors : ExecuteTransaction(t, err)
    \/ \E t \in Txs, err \in TxErrors : ValidateTransaction(t, err)
    \/ \E t \in Txs, idx \in 0..MaxEndpoints, ok \in BOOLEAN : GatherDraw(t, idx, ok)
    \/ \E t \in Txs, attests \in BOOLEAN : PeerResponse(t, attests)
    \/ \E t \in Txs, ok \in BOOLEAN : SendCompactTx(t, ok)
    \/ \E t \in Txs, res \in {"true", "false", "none"} : CoordinatorResult(t, res)

Spec == Init /\ [][Next]_vars


(* ================================ claims =============================== *)
Started(t)   == pc[t] \notin {"new", "validated"}   \* execute_transaction was called
Valid(t)     == Started(t) /\ tx_err[t] = NoErr
Parties(atts) == { a.pubkey : a \in atts }

\* C1: a transaction that fails static validation gets exactly one response,
\* "static invalid" with the validator's reason, and neither a peer validate
\* request nor a coordinator submit call is made for it.
C1_StaticInvalid ==
    \A t \in Txs :
        (Started(t) /\ tx_err[t] # NoErr)
            => /\ response[t] = << [has_value |-> TRUE,
                                    m_tx_status |-> "static_invalid",
                                    m_tx_error |-> tx_err[t]] >>
               /\ attempted[t] = {}
               /\ queried[t] = << >>
               /\ submits[t] = 0
               /\ coord_rx[t] = << >>

\* a rejected transaction with the second reason, in a configuration where a
\* valid transaction would have gone to the peers
C1_Witness ==
    \E t \in Txs :
        /\ pc[t] = "done"
        /\ tx_err[t] = NumReasons
        /\ m_attestation_threshold > 1
        /\ Len(m_sentinel_clients) > 0

\* C2: when a queried peer answers with no attestation, the caller gets the
\* status "state invalid" and nothing is submitted to the coordinator.
C2_RemoteInvalid ==
    \A t \in Txs :
        last_v_res[t] = "invalid"
            => /\ response[t] = << [has_value |-> TRUE,
                                    m_tx_status |-> "state_invalid",
                                    m_tx_error |-> NoErr] >>
               /\ submits[t] = 0

\* C3: the coordinator's outcome reaches the caller as: true -> confirmed,
\* false -> state invalid, no value -> an empty response.
C3_ResultMapping ==
    \A t \in Txs :
        coord_res[t] # "pending"
            => /\ Len(response[t]) = 1
               /\ coord_res[t] = "true"
                     => /\ response[t][1].has_value
                        /\ response[t][1].m_tx_status = "confirmed"
               /\ coord_res[t] = "false"
                     => /\ response[t][1].has_value
                        /\ response[t][1].m_tx_status = "state_invalid"
               /\ coord_res[t] = "none" => ~response[t][1].has_value

\* one transaction ended with no outcome, the other one confirmed
C3_Witness ==
    \E t, u \in Txs :
        /\ coord_res[t] = "none" /\ pc[t] = "done"
        /\ coord_res[u] = "true" /\ pc[u] = "done"

\* C4: with threshold 0 a valid transaction has no attestation, no peer client
\* is called for it, and what the coordinator accepts has no attestation.
C4_ThresholdZero ==
    m_attestation_threshold = 0 =>
        \A t \in Txs :
            Valid(t)
                => /\ m_attestations[t] = {}
                   /\ attempted[t] = {}
                   /\ queried[t] = << >>
                   /\ pc[t] \in {"send", "coord", "done"}
                   /\ \A i \in 1..Len(coord_rx[t]) :
                          coord_rx[t][i].m_attestations = {}

\* threshold 0 with peers configured, and the coordinator accepted the
\* transaction
C4_Witness ==
    /\ m_attestation_threshold = 0
    /\ Len(m_sentinel_clients) > 0
    /\ \E t \in Txs : Valid(t) /\ Len(coord_rx[t]) = 1


\* C5: a coordinator submit call is made for a transaction only when its
\* attestation set has at least threshold members; the set of a transaction
\* that has just been made compact holds no peer attestation (it is empty but
\* for the self attestation execute_transaction adds), and it never shrinks.
C5_SubmitNeedsThreshold ==
    \A t \in Txs :
        /\ (submits[t] > 0 \/ pc[t] \in {"send", "coord"})
              => Cardinality(m_attestations[t]) >= m_attestation_threshold
        /\ \A i \in 1..Len(coord_rx[t]) :
              Cardinality(coord_rx[t][i].m_attestations) >= m_attestation_threshold
        /\ ~Started(t) => m_attestations[t] = {}

C5_Grows ==
    \A t \in Txs :
        /\ m_attestations[t] \subseteq m_attestations'[t]
        /\ (~Started(t) /\ Started(t)')
              => /\ m_attestations'[t] \subseteq {sign(t, SelfParty)}
                 /\ Cardinality(m_attestations'[t])
                       = IF tx_err'[t] = NoErr /\ m_attestation_threshold > 0
                            THEN 1 ELSE 0

C5_Attestations == []C5_SubmitNeedsThreshold /\ [][C5_Grows]_vars

\* the coordinator accepted a transaction whose set grew to a threshold of 3
C5_Witness ==
    \E t \in Txs :
        /\ m_attestation_threshold = MaxThreshold
        /\ Len(coord_rx[t]) = 1
        /\ Cardinality(m_attestations[t]) = MaxThreshold

\* C6: with a threshold T > 0, a transaction that reaches coordinator
\* submission has exactly T attestations, from T different parties.
C6_ExactlyThreshold ==
    m_attestation_threshold > 0 =>
        \A t \in Txs :
            /\ (submits[t] > 0 \/ pc[t] \in {"send", "coord"})
                  => /\ Cardinality(m_attestations[t]) = m_attestation_threshold
                     /\ Cardinality(Parties(m_attestations[t]))
                           = m_attestation_threshold
            /\ \A i \in 1..Len(coord_rx[t]) :
                  /\ Cardinality(coord_rx[t][i].m_attestations)
                        = m_attestation_threshold
                  /\ Cardinality(Parties(coord_rx[t][i].m_attestations))
                        = m_attestation_threshold

\* threshold 2 with two peers: the accepted set is the self attestation and
\* the attestation of one peer, the other peer was never queried
C6_Witness ==
    \E t \in Txs :
        /\ m_attestation_threshold = 2
        /\ Len(m_sentinel_clients) = 2
        /\ Len(coord_rx[t]) = 1
        /\ Len(queried[t]) = 1
        /\ Cardinality(coord_rx[t][1].m_attestations) = 2

\* C7: no peer index is queried twice for one transaction: an accepted
\* dispatch goes to an index that is not in requested, and a peer's attestation
\* extends requested by exactly the index it was asked at, which was not in it.
NoDuplicates(q) == \A i, j \in 1..Len(q) : q[i] = q[j] => i = j

C7_QueriedOnce == \A t \in Txs : NoDuplicates(queried[t])

C7_Step ==
    \A t \in Txs :
        /\ queried'[t] # queried[t]
              => /\ queried'[t] = Append(queried[t], sentinel_id'[t])
                 /\ sentinel_id'[t] \notin requested[t]
        /\ requested'[t] # requested[t]
              => /\ pc[t] = "wait"
                 /\ sentinel_id[t] \notin requested[t]
                 /\ requested'[t] = requested[t] \cup {sentinel_id[t]}
        /\ (pc[t] = "wait" /\ last_v_res'[t] = "attested" /\ pc'[t] # "wait")
              => Cardinality(requested'[t]) = Cardinality(requested[t]) + 1

C7_NoPeerTwice == []C7_QueriedOnce /\ [][C7_Step]_vars

\* two peers were queried for one transaction and both attested
C7_Witness ==
    \E t \in Txs :
        /\ Len(queried[t]) = 2
        /\ Cardinality(requested[t]) = 2

\* C8: the coordinator accepts a submit call for a transaction at most once,
\* and after it accepted no further submit call is made for the transaction,
\* whatever outcome it reports.
C8_AcceptedOnce == \A t \in Txs : Len(coord_rx[t]) <= 1

C8_Step ==
    \A t \in Txs :
        Len(coord_rx[t]) > 0
            => /\ submits'[t] = submits[t]
               /\ coord_rx'[t] = coord_rx[t]
               /\ pc'[t] \in {"coord", "done"}

C8_SubmittedOnce == []C8_AcceptedOnce /\ [][C8_Step]_vars

\* the coordinator accepted after a rejected call and reported a rejection
C8_Witness ==
    \E t \in Txs :
        /\ pc[t] = "done"
        /\ coord_res[t] = "false"
        /\ Len(coord_rx[t]) = 1
        /\ submits[t] = 2

\* C9: when the coordinator client rejects the submit call k times and then
\* accepts it, exactly k retry delays were slept, the transaction was
\* submitted as it was gathered, and the caller's response is the one a
\* transaction with no rejected call gets for the same outcome.
C9_RetryThenAccept ==
    \A t \in Txs :
        /\ pc[t] = "send" => sleeps[t] = submits[t] /\ coord_rx[t] = << >>
        /\ (pc[t] = "coord" \/ coord_res[t] # "pending")
              => /\ sleeps[t] = submits[t] - 1
                 /\ coord_rx[t] = << [m_id |-> t,
                                      m_attestations |-> m_attestations[t]] >>
        /\ \A u \in Txs :
              (coord_res[t] # "pending" /\ coord_res[u] = coord_res[t])
                  => response[u] = response[t]

\* one transaction was rejected 3 times, the other never, both were confirmed
C9_Witness ==
    \E t, u \in Txs :
        /\ sleeps[t] = MaxRetry /\ submits[t] = MaxRetry + 1
        /\ sleeps[u] = 0 /\ submits[u] = 1
        /\ coord_res[t] = "true" /\ coord_res[u] = "true"
        /\ pc[t] = "done" /\ pc[u] = "done"

\* C10: the attestation set and the requested set of a transaction change
\* only by that transaction's own steps: every attestation in the set is a
\* signature over this transaction, every requested index is one this
\* transaction queried, and a step that changes one transaction's sets leaves
\* the sets of every other transaction as they were.
C10_OwnState ==
    \A t \in Txs :
        /\ \A a \in m_attestations[t] : a.sig[2] = t
        /\ \A i \in requested[t] : \E k \in 1..Len(queried[t]) : queried[t][k] = i

C10_Step ==
    \A t, u \in Txs :
        (t # u /\ (m_attestations'[t] # m_attestations[t]
                    \/ requested'[t] # requested[t]
                    \/ queried'[t] # queried[t]))
            => /\ m_attestations'[u] = m_attestations[u]
               /\ requested'[u] = requested[u]
               /\ queried'[u] = queried[u]

C10_Isolation == []C10_OwnState /\ [][C10_Step]_vars

\* two transactions in flight that have asked different peers
C10_Witness ==
    \E t, u \in Txs :
        /\ pc[t] = "gather" /\ pc[u] = "wait"
        /\ requested[t] # {} /\ requested[u] # {}
        /\ requested[t] # requested[u]


\* C11: init fails at the configuration checks, before any coordinator or
\* peer connection is attempted, exactly when the endpoint list is empty, or
\* the identity is no index into it, or the threshold is above 0 and there is
\* no signing key; with threshold 0 a missing key passes the checks.
BadConfiguration ==
    \/ m_sentinel_endpoints = << >>
    \/ ~(m_sentinel_id \in 0..(Len(m_sentinel_endpoints) - 1))
    \/ (m_attestation_threshold > 0 /\ ~has_privkey)

C11_NothingConnected ==
    BadConfiguration
        => /\ init_pc \in {"start", "failed"}
           /\ retry_threshold = 0 /\ retry_delay = 0
           /\ m_sentinel_clients = << >>
           /\ \A t \in Txs : pc[t] = "new"

C11_Step ==
    init_pc = "start"
        => /\ BadConfiguration => init_pc' = "failed"
           /\ ~BadConfiguration => init_pc' = "connect"

C11_StartupChecks == []C11_NothingConnected /\ [][C11_Step]_vars

\* init failed for nothing but the missing key of a positive threshold
C11_Witness ==
    /\ init_pc = "failed"
    /\ Len(m_sentinel_endpoints) = MaxEndpoints
    /\ m_sentinel_id < Len(m_sentinel_endpoints)
    /\ ~has_privkey
    /\ m_attestation_threshold > 0

\* C12: with no peer configured (this sentinel's endpoint is the only one)
\* and a threshold above 0, init does not succeed.
C12_ZeroPeersRejected ==
    init_pc = "running"
        => ~(/\ m_attestation_threshold > 0
             /\ \A i \in 1..Len(m_sentinel_endpoints) :
                  m_sentinel_endpoints[i] = m_sentinel_endpoints[m_sentinel_id + 1])


\* C13: validate_transaction gives its callback exactly one value: this
\* sentinel's attestation of the transaction when check_tx finds no violation,
\* no value when it finds one; and it calls no peer and no coordinator.
C13_ValidateOnly ==
    \A t \in Txs :
        /\ pc[t] = "validated"
              => /\ Len(v_response[t]) = 1
                 /\ v_response[t][1].has_value = (tx_err[t] = NoErr)
                 /\ tx_err[t] = NoErr
                       => /\ v_response[t][1].pubkey
                               = (IF has_privkey
                                     THEN m_sentinel_endpoints[m_sentinel_id + 1]
                                     ELSE 0)
                          /\ v_response[t][1].sig = <<v_response[t][1].pubkey, t>>
                 /\ attempted[t] = {} /\ queried[t] = << >>
                 /\ submits[t] = 0 /\ coord_rx[t] = << >>
                 /\ response[t] = << >>
        /\ pc[t] # "validated" => v_response[t] = << >>

\* one request was attested, the other one rejected
C13_Witness ==
    \E t, u \in Txs :
        /\ pc[t] = "validated" /\ v_response[t][1].has_value
        /\ pc[u] = "validated" /\ ~v_response[u][1].has_value
        /\ tx_err[u] # NoErr


\* The last iteration of the draw loop of t called a peer client that did not
\* accept the request: the loop is still running, on an index that is a peer
\* client and is not in requested.
DispatchFailed(t) ==
    /\ pc[t] = "gather"
    /\ sentinel_id[t] \in 0..(Len(m_sentinel_clients) - 1)
    /\ sentinel_id[t] \notin requested[t]

\* C14 as stated: after a dispatch that failed to enqueue, the candidate the
\* same step dispatches to next is another peer than the one that failed.
C14_Step ==
    \A t \in Txs :
        (DispatchFailed(t) /\ pc'[t] = "wait")
            => sentinel_id'[t] # sentinel_id[t]

C14_DifferentPeer == [][C14_Step]_vars

\* C14 as the code has it: after a dispatch that failed to enqueue the loop
\* draws again over all peer indices; it dispatches only to an index that is
\* not in requested, which may be the peer that just failed, and the step
\* ends only with a dispatch that was accepted.
C14_RedrawStep ==
    \A t \in Txs :
        pc[t] = "gather"
            => /\ pc'[t] \in {"gather", "wait"}
               /\ sentinel_id'[t] # sentinel_id[t]
                     => sentinel_id'[t] \in m_dist.lo .. m_dist.hi
               /\ attempted'[t] # attempted[t]
                     => /\ attempted'[t] = attempted[t] \cup {sentinel_id'[t]}
                        /\ sentinel_id'[t] \notin requested[t]
               /\ pc'[t] = "wait"
                     => /\ sentinel_id'[t] \notin requested[t]
                        /\ sentinel_id'[t] \in attempted'[t]
                        /\ queried'[t] = Append(queried[t], sentinel_id'[t])
               /\ pc'[t] = "gather" => queried'[t] = queried[t]

C14_Redraw == [][C14_RedrawStep]_vars

\* a dispatch failed in a later step of the gathering, one peer already
\* requested
C14_Witness ==
    \E t \in Txs : DispatchFailed(t) /\ requested[t] # {}


\* C15: while a validate request that a peer accepted is unanswered, nothing
\* happens for the transaction: no other peer is queried, nothing is submitted
\* and no result is delivered; only the peer's response moves it on (there is
\* no timeout and no new selection).
Outstanding(t) ==
    /\ pc[t] \in {"gather", "wait", "send", "coord"}
    /\ Len(queried[t]) > Cardinality(requested[t])

TxState(t) ==
    <<pc[t], m_attestations[t], requested[t], sentinel_id[t], attempted[t],
      queried[t], last_v_res[t], submits[t], sleeps[t], coord_rx[t],
      coord_res[t], response[t]>>

C15_Waiting ==
    \A t \in Txs :
        Outstanding(t)
            => /\ pc[t] = "wait"
               /\ response[t] = << >>
               /\ submits[t] = 0
               /\ queried[t][Len(queried[t])] = sentinel_id[t]

C15_Step ==
    \A t \in Txs :
        Outstanding(t)
            => /\ queried'[t] = queried[t]
               /\ attempted'[t] = attempted[t]
               /\ submits'[t] = submits[t]
               /\ (\E attests \in BOOLEAN : PeerResponse(t, attests))
                     \/ TxState(t)' = TxState(t)

C15_StallsOnPeer == []C15_Waiting /\ [][C15_Step]_vars

\* a transaction still waits for its peer while the other one, started with
\* it, has its result
C15_Witness ==
    \E t, u \in Txs :
        /\ pc[t] = "wait" /\ requested[t] # {}
        /\ pc[u] = "done" /\ coord_res[u] = "true"


\* C16: the coordinator connect loop of init makes at most 5 attempts (4
\* retries); the sleeps after the failed attempts are 1, 2, 4 and 8 seconds;
\* and when the fifth attempt fails too, init goes on to the peer clients.
\* In the loop retry_threshold is 4 minus the number of failed attempts.
SleepAfterFailure(failed) ==
    CASE failed = 1 -> 1 [] failed = 2 -> 2 [] failed = 3 -> 4 [] failed = 4 -> 8

C16_InLoop ==
    /\ init_pc = "connect"
          => /\ retry_threshold \in 0..4
             /\ retry_delay = IF retry_threshold = 0
                                 THEN 8
                                 ELSE SleepAfterFailure(5 - retry_threshold)
    /\ init_pc = "peers" => retry_threshold \in -1..4

C16_Step ==
    init_pc = "connect"
        => /\ init_pc' \in {"connect", "peers"}
           /\ init_pc' = "connect"
                 => \* a failed attempt that is retried, after a sleep of retry_delay
                    /\ retry_threshold >= 1
                    /\ retry_threshold' = retry_threshold - 1
                    /\ retry_delay = SleepAfterFailure(5 - retry_threshold)
                    /\ retry_delay' = IF retry_threshold' > 0
                                         THEN 2 * retry_delay
                                         ELSE retry_delay
           /\ retry_threshold = 0 => init_pc' = "peers"

C16_BoundedBackoff == []C16_InLoop /\ [][C16_Step]_vars

\* all five attempts failed, the last sleep was 8 seconds, and init is at the
\* peer clients
C16_Witness ==
    /\ init_pc = "peers"
    /\ retry_threshold = -1
    /\ retry_delay = 8


\* C17: the result callback of an execute_transaction call is invoked at most
\* once, on every path; once it was invoked the transaction has ended.
C17_CallbackOnce ==
    \A t \in Txs :
        /\ Len(response[t]) <= 1
        /\ Len(response[t]) = 1 => pc[t] = "done"

\* a result after two peers, rejected submit calls and a coordinator outcome,
\* next to a static rejection
C17_Witness ==
    \E t, u \in Txs :
        /\ Len(response[t]) = 1 /\ Len(queried[t]) = 2 /\ sleeps[t] = 2
        /\ coord_res[t] = "false"
        /\ Len(response[u]) = 1 /\ tx_err[u] # NoErr


\* C18: after a successful init every index the draw loop uses to pick a peer
\* client is an index of m_sentinel_clients.
C18_ValidIndex ==
    init_pc = "running"
        => \A t \in Txs :
              (sentinel_id[t] # NoIndex /\ sentinel_id[t] \notin requested[t])
                  => /\ 0 <= sentinel_id[t]
                     /\ sentinel_id[t] < Len(m_sentinel_clients)


(* ------------- the controller with responsive peers and coordinator ----- *)
\* Every peer client accepts the dispatch and every peer answers with its
\* attestation; the coordinator client may reject the first submit call of a
\* transaction.  The requests
\* are execute_transaction calls with statically valid transactions.
NextLive ==
    \/ InitValidate
    \/ \E ok \in BOOLEAN : InitCoordinator(ok)
    \/ \E ok \in BOOLEAN : InitPeers(ok)
    \/ \E t \in Txs : ExecuteTransaction(t, NoErr)
    \/ \E t \in Txs, idx \in 0..MaxEndpoints : GatherDraw(t, idx, TRUE)
    \/ \E t \in Txs : PeerResponse(t, TRUE)
    \/ \E t \in Txs, ok \in BOOLEAN : (ok \/ sleeps[t] = 0) /\ SendCompactTx(t, ok)
    \/ \E t \in Txs, res \in {"true", "false", "none"} : CoordinatorResult(t, res)

\* a draw of an index that is not in requested
FreshDraw(t) ==
    \E idx \in 0..MaxEndpoints :
        idx \notin requested[t] /\ GatherDraw(t, idx, TRUE)

\* The draws are fair (an index that can be drawn is drawn in the end), every
\* peer answers, the coordinator client accepts in the end and the coordinator
\* reports an outcome.
Fairness ==
    \A t \in Txs :
        /\ WF_vars(FreshDraw(t))
        /\ WF_vars(PeerResponse(t, TRUE))
        /\ WF_vars(SendCompactTx(t, TRUE))
        /\ WF_vars(\E res \in {"true", "false", "none"} : CoordinatorResult(t, res))

LiveSpec == Init /\ [][NextLive]_vars /\ Fairness

\* C19: with 0 < threshold <= 1 + number of peer clients, responsive peers
\* and coordinator and fair draws, every statically valid transaction passed
\* to execute_transaction has its result callback invoked in the end.
C19_Delivers ==
    \A t \in Txs :
        (/\ Valid(t)
         /\ 0 < m_attestation_threshold
         /\ m_attestation_threshold <= 1 + Len(m_sentinel_clients))
            ~> (Len(response[t]) = 1)

\* threshold 3 with two peers: both were asked and the result was delivered
C19_Witness ==
    \E t \in Txs :
        /\ m_attestation_threshold = 3
        /\ Len(m_sentinel_clients) = 2
        /\ Len(queried[t]) = 2
        /\ sleeps[t] > 0
        /\ Len(response[t]) = 1


\* C20: with at least one peer client and a threshold above 1 + the number of
\* peer clients, a statically valid transaction whose peers all attest is
\* never submitted and its caller never gets a result; once every peer index
\* is in requested the draw loop only draws again: it dispatches nothing and
\* does not end.
PeerIndices == 0..(Len(m_sentinel_clients) - 1)

ThresholdOutOfReach ==
    /\ init_pc = "running"
    /\ Len(m_sentinel_clients) >= 1
    /\ m_attestation_threshold > 1 + Len(m_sentinel_clients)

C20_NeverSubmitted ==
    ThresholdOutOfReach
        => \A t \in Txs :
              (Valid(t) /\ last_v_res[t] # "invalid")
                  => /\ pc[t] \in {"gather", "wait"}
                     /\ submits[t] = 0
                     /\ coord_rx[t] = << >>
                     /\ response[t] = << >>

C20_Step ==
    ThresholdOutOfReach
        => \A t \in Txs :
              (pc[t] = "gather" /\ requested[t] = PeerIndices)
                  => /\ pc'[t] = "gather"
                     /\ attempted'[t] = attempted[t]
                     /\ queried'[t] = queried[t]
                     /\ requested'[t] = requested[t]
                     /\ m_attestations'[t] = m_attestations[t]
                     /\ ~crashed'

C20_DrawsForever == []C20_NeverSubmitted /\ [][C20_Step]_vars

\* threshold 3 with one peer: the peer attested and the loop draws again
C20_Witness ==
    /\ ThresholdOutOfReach
    /\ \E t \in Txs :
          /\ pc[t] = "gather"
          /\ requested[t] = PeerIndices
          /\ Cardinality(m_attestations[t]) = 1 + Len(m_sentinel_clients)

====
